---- MODULE Spec2Model ----
(***************************************************************************)
(* A model of geovaex: the spatial join (sjoin.py), the windowed geometry  *)
(* view (geoseries.py), the recursive process-pool reduction               *)
(* (GeoSeries.total_bounds) and the thread-pool regime                     *)
(* (Predicates._predicate / Measurement._measurement).                     *)
(*                                                                         *)
(* Geometries are closed intervals <<lo, hi>> on one axis: a point is      *)
(* <<x, x>>.  The predicates, the buffer and the bounding box of the       *)
(* geometry library are computed on these intervals.  Row positions are    *)
(* 0-based, as in the source; a sequence s holds row k at s[k + 1].        *)
(***************************************************************************)
EXTENDS Integers, Sequences, FiniteSets, TLC

VARIABLES
    jpc,      \* sjoin: "call" before the call, "done" after it
    jin,      \* sjoin: the arguments of the call
    jout,     \* sjoin: what the call produced (a result or an error)
    gs,       \* the GeoSeries under test (its fields)
    vlast,    \* the last operation on it: name, arguments, the view before, outcome
    red,      \* GeoSeries.total_bounds: the call, the current pass and its pool
    thr,      \* Predicates._predicate / Measurement._measurement: the call and its pool
    lz        \* the LazyObj pipelines alive, the Python lists they hold, the last call

jvars == <<jpc, jin, jout>>
vvars == <<gs, vlast>>

\* Python's None, where a row position, a key or a distance may be missing:
\* those are never negative, so None is kept apart from them as -1
None == -1

(***************************************************************************)
(* Bounds of the model.                                                    *)
(***************************************************************************)
MaxRows == 3          \* rows of a dataframe given to sjoin
MaxStore == 3         \* rows of the geometry store of a view
MaxTake == 2          \* indices given to take
MaxPoolRows == 5      \* rows of the store of a view handed to a worker pool
MaxChunkSize == 2     \* chunksize given to total_bounds
MaxDepth == 4         \* recursive passes before the interpreter's recursion limit
ThreadChunkSize == 2  \* stands for chunksize = 1000 of _predicate and _measurement
MaxObjs == 3          \* LazyObj pipelines alive at once

(***************************************************************************)
(* The geometry library (pygeos), on intervals.                            *)
(***************************************************************************)
Geoms == {<<0, 0>>, <<2, 2>>, <<0, 1>>}

Min2(a, b) == IF a <= b THEN a ELSE b
Max2(a, b) == IF a >= b THEN a ELSE b

\* pg.within(a, b): a lies inside b
Within(a, b) == b[1] <= a[1] /\ a[2] <= b[2]
\* pg.contains(a, b): b lies inside a
Contains(a, b) == a[1] <= b[1] /\ b[2] <= a[2]
\* pg.intersects(a, b)
Intersects(a, b) == a[1] <= b[2] /\ b[1] <= a[2]
\* pg.buffer(g, radius)
Buffer(g, d) == <<g[1] - d, g[2] + d>>
\* pg.distance(a, b)
Distance(a, b) == Max2(0, Max2(b[1] - a[2], a[1] - b[2]))

\* the predicate evaluation of STRtree.query_bulk(..., predicate=op)
TreePredicate(op, a, b) ==
    CASE op = "contains"   -> Contains(a, b)
      [] op = "within"     -> Within(a, b)
      [] op = "intersects" -> Intersects(a, b)
      [] OTHER             -> FALSE

(***************************************************************************)
(* Sequence helpers.                                                       *)
(***************************************************************************)
RECURSIVE Flatten(_)
Flatten(ss) == IF ss = <<>> THEN <<>> ELSE Head(ss) \o Flatten(Tail(ss))

Range(s) == {s[k] : k \in 1..Len(s)}

SeqsUpTo(S, lo, hi) == UNION {[1..n -> S] : n \in lo..hi}

(***************************************************************************)
(* Dataframes of the join: a sequence of rows; src is the position of the  *)
(* row in the caller's dataframe (it stands for the attribute columns),    *)
(* geom the geometry, join_id the key column sjoin adds.                   *)
(***************************************************************************)
MakeDf(geoms) == [k \in 1..Len(geoms) |-> [src |-> k - 1, geom |-> geoms[k], join_id |-> None]]

\* GeoDataFrame.take(indices): row j of the result is row indices[j]
DfTake(df, indices) == [j \in 1..Len(indices) |-> df[indices[j] + 1]]

\* DataFrame.add_column("join_id", values)
AddJoinId(df, values) == [k \in 1..Len(df) |-> [df[k] EXCEPT !.join_id = values[k]]]

\* constructive.buffer(radius=distance, inplace=True): every geometry of the
\* dataframe is replaced by its buffer
DfBuffer(df, d) == [k \in 1..Len(df) |-> [df[k] EXCEPT !.geom = Buffer(df[k].geom, d)]]

\* np.arange(0, n)
Arange(n) == [k \in 1..n |-> k - 1]

\* tree.query_bulk(probe.geometry, predicate=op): the pairs (probe position,
\* tree position) for which the predicate holds, by probe position
QueryBulk(tree, probe, op) ==
    Flatten([i \in 1..Len(probe) |->
        LET hits == SelectSeq(Arange(Len(tree)),
                       LAMBDA j : TreePredicate(op, probe[i].geom, tree[j + 1].geom))
        IN  [k \in 1..Len(hits) |-> <<i - 1, hits[k]>>]])

\* sjoin lines 46-51: "contains" and "within" exchange places when the
\* sides are swapped, the symmetric predicates stay
InvertOpKeep(op) == op
InvertOp(op) ==
    CASE op = "contains" -> "within"
      [] op = "within"   -> "contains"
      [] OTHER           -> op

\* sjoin line 43: the sides are swapped when the left has fewer rows
ShouldSwapNever(left, right) == FALSE
ShouldSwap(left, right) == Len(left) < Len(right)

(***************************************************************************)
(* DataFrame.join(other, on="join_id", how, allow_duplication) of the host *)
(* dataframe library, called at sjoin line 78.  how="right" drives the     *)
(* join from the other side; the driven side is indexed by its key, and a  *)
(* duplicated key there is an error unless allow_duplication.  A result    *)
(* row is [l, r]: the src of the left and of the right row, None for the   *)
(* missing side.  noneDup: whether the index counts two missing (None)     *)
(* keys as a duplicate, which the library leaves open.                     *)
(***************************************************************************)
HasDuplicateKeys(df, noneDup) ==
    \E a, b \in 1..Len(df) :
        /\ a < b
        /\ df[a].join_id = df[b].join_id
        /\ (df[a].join_id = None => noneDup)

HostJoin(left, right, how, allow_duplication, noneDup) ==
    LET drive == IF how = "right" THEN right ELSE left
        other == IF how = "right" THEN left ELSE right
        Row(d, o) == IF how = "right" THEN [l |-> o, r |-> d] ELSE [l |-> d, r |-> o]
        Matches(i) == SelectSeq(Arange(Len(other)),
                         LAMBDA j : /\ drive[i].join_id # None
                                    /\ other[j + 1].join_id = drive[i].join_id)
        RowsOf(i) ==
            LET m == Matches(i)
            IN  IF m = <<>>
                THEN IF how = "inner" THEN <<>> ELSE <<Row(drive[i].src, None)>>
                ELSE [k \in 1..Len(m) |-> Row(drive[i].src, other[m[k] + 1].src)]
    IN  IF HasDuplicateKeys(other, noneDup) /\ ~allow_duplication
        THEN [status |-> "error", error |-> "duplication", rows |-> <<>>]
        ELSE [status |-> "ok", error |-> None,
              rows |-> Flatten([i \in 1..Len(drive) |-> RowsOf(i)])]

(***************************************************************************)
(* sjoin(left, right, how, op, distance, allow_duplication).  l0 and r0    *)
(* are the caller's geometry columns.                                      *)
(***************************************************************************)
SJoinUnswapNever(swapped) == FALSE
SJoinUnswap(swapped) == swapped

\* sjoin lines 60-62: dwithin needs a distance
DistanceMissingNever(op, distance) == FALSE
DistanceMissing(op, distance) == op = "dwithin" /\ distance = None

\* sjoin line 72: np.array([None]*len(right)), the keys when no pair matched
NoMatchKeysArange(df) == Arange(Len(df))
NoMatchKeys(df) == [k \in 1..Len(df) |-> None]

\* crs.to_epsg() of lines 54 and 56: the EPSG code of a CRS; an undefined CRS
\* is None, which has no to_epsg
CrsUndefined(crs) == crs = None

\* the object the name left is bound to from line 45 on: the copy made at
\* line 40, or after a swap the caller's right dataframe itself (the name
\* right is bound to a new dataframe by extract() at line 53)
ProbeObject(swapped) == IF swapped THEN "right" ELSE "left_copy"

SJoin(l0, r0, lcrs, rcrs, how, op0, distance, allow_duplication, noneDup) ==
    LET swapped == ShouldSwap(l0, r0)
        left1  == IF swapped THEN MakeDf(r0) ELSE MakeDf(l0)
        right1 == IF swapped THEN MakeDf(l0) ELSE MakeDf(r0)
        lcrs1  == IF swapped THEN rcrs ELSE lcrs
        rcrs1  == IF swapped THEN lcrs ELSE rcrs
        op1    == IF swapped THEN InvertOp(op0) ELSE op0
        right2 == IF op1 = "dwithin" /\ distance # None THEN DfBuffer(right1, distance) ELSE right1
        op2    == IF op1 = "dwithin" THEN "intersects" ELSE op1
        pairs  == QueryBulk(right2, left1, op2)
        l_idx  == [k \in 1..Len(pairs) |-> pairs[k][1]]
        r_idx  == [k \in 1..Len(pairs) |-> pairs[k][2]]
        right3 == IF Len(r_idx) # 0
                  THEN AddJoinId(DfTake(right2, r_idx), l_idx)
                  ELSE AddJoinId(right2, NoMatchKeys(right2))
        left3  == AddJoinId(left1, Arange(Len(left1)))
        left4  == IF SJoinUnswap(swapped) THEN right3 ELSE left3
        right4 == IF SJoinUnswap(swapped) THEN left3 ELSE right3
        joined == HostJoin(left4, right4, how, allow_duplication, noneDup)
    IN  IF CrsUndefined(lcrs1) \/ CrsUndefined(rcrs1)
        THEN [status |-> "error", error |-> "AttributeError", rows |-> <<>>,
              swapped |-> swapped, swap_op |-> op1, op |-> op1, tree |-> 0,
              probe |-> Len(left1), pairs |-> 0, join_id_on |-> {}]
        ELSE IF DistanceMissing(op1, distance)
        THEN [status |-> "error", error |-> "distance", rows |-> <<>>,
              swapped |-> swapped, swap_op |-> op1, op |-> op1, tree |-> 0,
              probe |-> Len(left1), pairs |-> 0, join_id_on |-> {}]
        ELSE [status |-> joined.status, error |-> joined.error, rows |-> joined.rows,
              swapped |-> swapped, swap_op |-> op1, op |-> op2, tree |-> Len(right2),
              probe |-> Len(left1), pairs |-> Len(pairs),
              join_id_on |-> {ProbeObject(swapped)}]

(***************************************************************************)
(* The geometry store (pyarrow): kind "array" is a pa.Array, held as one   *)
(* chunk; kind "chunked" is a pa.ChunkedArray.                             *)
(***************************************************************************)
RECURSIVE Chunkings(_)
Chunkings(s) ==
    IF s = <<>> THEN {<<>>}
    ELSE UNION {{<<SubSeq(s, 1, k)>> \o rest : rest \in Chunkings(SubSeq(s, k + 1, Len(s)))}
                : k \in 1..Len(s)}

ArrayOf(s) == [kind |-> "array", chunks |-> <<s>>]
ChunkedOf(cs) == [kind |-> "chunked", chunks |-> cs]

\* the geometries held by the stores of the views: two distinct points
StoreGeoms == {<<0, 0>>, <<2, 2>>}

Stores(n) ==
    LET flat == SeqsUpTo(StoreGeoms, 0, n)
    IN  {ArrayOf(s) : s \in flat} \cup
        UNION {{ChunkedOf(cs) : cs \in Chunkings(s)} : s \in flat}

Flat(g) == Flatten(g.chunks)
\* len(geometry)
GLen(g) == Len(Flat(g))

\* slice.indices(n) of Python: a negative bound counts from the end, and
\* both bounds are clamped to 0..n
PyBound(i, n) == IF i < 0 THEN Max2(i + n, 0) ELSE Min2(i, n)

\* s[lo:hi] of Python
PySlice(s, lo, hi) ==
    LET l == PyBound(lo, Len(s))
        h == PyBound(hi, Len(s))
    IN  IF l >= h THEN <<>> ELSE SubSeq(s, l + 1, h)

RECURSIVE ChunkOffset(_, _)
\* the number of rows before chunk k
ChunkOffset(chunks, k) == IF k <= 1 THEN 0 ELSE ChunkOffset(chunks, k - 1) + Len(chunks[k - 1])

\* geometry[lo:hi]: an array stays an array; a chunked array keeps the
\* pieces of the chunks the range touches
GeomSlice(g, lo, hi) ==
    IF g.kind = "array" THEN ArrayOf(PySlice(Flat(g), lo, hi))
    ELSE LET l == PyBound(lo, GLen(g))
             h == PyBound(hi, GLen(g))
             piece(k) ==
                 LET off == ChunkOffset(g.chunks, k)
                 IN  IF h - off <= 0 \/ l >= h THEN <<>>
                     ELSE PySlice(g.chunks[k], Max2(l - off, 0), h - off)
             pieces == [k \in 1..Len(g.chunks) |-> piece(k)]
         IN  ChunkedOf(SelectSeq(pieces, LAMBDA c : c # <<>>))

(***************************************************************************)
(* GeoSeries (geoseries.py), standalone (df=None, so never filtered).      *)
(***************************************************************************)
\* GeoSeries.__init__(geometry)
NewGeoSeries(g) ==
    [geometry |-> g, index_start |-> 0, index_end |-> GLen(g),
     length_original |-> GLen(g), length_unfiltered |-> GLen(g)]

\* GeoSeries.__len__
ViewLen(v) == v.length_unfiltered

\* GeoSeries._active_geometry: the whole store unless filtered
ActiveGeometry(v) == v.geometry

\* GeoSeries.trim
Trim(v) ==
    [geometry |-> IF v.index_start = 0 /\ GLen(v.geometry) = v.index_end
                  THEN v.geometry
                  ELSE GeomSlice(v.geometry, v.index_start, v.index_end),
     index_start |-> 0, index_end |-> v.length_unfiltered,
     length_original |-> v.length_unfiltered, length_unfiltered |-> v.length_unfiltered]

\* GeoSeries.set_active_range, past the division by length_original
SetRange(v, i1, i2) ==
    [v EXCEPT !.index_start = i1, !.index_end = i2, !.length_unfiltered = i2 - i1]

Ok(x) == [status |-> "ok", value |-> x]
Raised(e) == [status |-> "error", value |-> e]

\* GeoSeries.__getitem__(int): the item-th row of the active geometry
GetItem(v, item) ==
    LET piece == Flat(GeomSlice(ActiveGeometry(v), item, item + 1))
    IN  IF piece = <<>> THEN Raised("IndexError") ELSE Ok(piece[1])

\* GeoSeries.__getitem__(slice(start, stop)): None and 0 are both falsy
SliceStop(stop, len) == IF stop = None \/ stop = 0 THEN len ELSE stop
GetSlice(v, a, b) ==
    LET start == IF a = None THEN 0 ELSE a
        stop  == Min2(SliceStop(b, ViewLen(v)), ViewLen(v))
        t     == Trim(v)
    IN  IF t.length_original = 0 THEN Raised("ZeroDivisionError")
        ELSE Ok(Trim(SetRange(t, start, stop)))

\* the rows take gathers from a chunked store: by chunk, and within a chunk
\* in the order of the indices
TakeChunked(chunks, indices) ==
    LET part(k) ==
            LET off == ChunkOffset(chunks, k)
                sel == SelectSeq(indices, LAMBDA x : off <= x /\ x < Len(chunks[k]) + off)
            IN  [j \in 1..Len(sel) |-> chunks[k][sel[j] - off + 1]]
    IN  SelectSeq([k \in 1..Len(chunks) |-> part(k)], LAMBDA c : c # <<>>)

\* pa.Array.take(indices): row j is row indices[j]; an index out of bounds raises
TakeArray(s, indices) == [j \in 1..Len(indices) |-> s[indices[j] + 1]]

\* GeoSeries.take(indices)
Take(v, indices) ==
    LET t == Trim(v)
    IN  IF t.geometry.kind = "chunked"
        THEN LET chunks == TakeChunked(t.geometry.chunks, indices)
             IN  IF Len(chunks) > 0
                 THEN Ok(NewGeoSeries(ArrayOf(Flatten(chunks))))
                 ELSE Raised("IndexError")
        ELSE IF \E j \in 1..Len(indices) : indices[j] >= GLen(t.geometry)
             THEN Raised("IndexError")
             ELSE Ok(NewGeoSeries(ArrayOf(TakeArray(Flat(t.geometry), indices))))

\* GeoDataFrame.take(indices) of a dataframe whose geometry is the view v:
\* the geometry column is GeoSeries.take of the trimmed geometry, the
\* attribute columns are the host DataFrame.take, whose row j is row
\* indices[j] of the active range; attrs names the source row of each
\* attribute row
GeoDataFrameTake(v, indices) ==
    LET geometry == Take(Trim(v), indices)
    IN  IF geometry.status # "ok" THEN geometry
        ELSE IF \E j \in 1..Len(indices) : indices[j] >= ViewLen(v)
        THEN Raised("IndexError")
        ELSE Ok([geometry |-> Flat(geometry.value.geometry), attrs |-> indices])

\* GeoDataFrameConcatenated(dfs), each dataframe given by the view of its
\* geometry, whose range is the range of the dataframe.  A row is named by
\* its dataframe and its row of the store.  The geometry is every chunk of
\* every store (_geometry.chunks, which a pa.Array does not have); the
\* attribute columns are the rows of df.extract(), the active range; the row
\* count is the sum of the len(df)
ConcatGeometryRows(dfs) ==
    Flatten([i \in 1..Len(dfs) |-> [k \in 1..GLen(dfs[i].geometry) |-> <<i, k - 1>>]])

ConcatAttributeRows(dfs) ==
    Flatten([i \in 1..Len(dfs) |->
                [k \in 1..ViewLen(dfs[i]) |-> <<i, dfs[i].index_start + k - 1>>]])

GeoDataFrameConcatenated(dfs) ==
    IF \E i \in 1..Len(dfs) : dfs[i].geometry.kind # "chunked"
    THEN Raised("AttributeError")
    ELSE Ok([geometry |-> ConcatGeometryRows(dfs),
             attrs |-> ConcatAttributeRows(dfs),
             length_unfiltered |-> Len(ConcatAttributeRows(dfs))])

(***************************************************************************)
(* The view as a state machine: a fresh view, then any sequence of         *)
(* set_active_range, slicing, trim, copy, take and element access.  A      *)
(* slice, a trim and a take hand the program the view they return.         *)
(***************************************************************************)
NoOp == [op |-> "init", a |-> None, b |-> None, indices |-> <<>>,
         pre |-> NewGeoSeries(ArrayOf(<<>>)), out |-> Ok(None)]

ViewInit ==
    /\ gs \in {NewGeoSeries(g) : g \in Stores(MaxStore)}
    /\ vlast = NoOp

\* the bounds a caller may ask for: set_active_range takes any two integers,
\* in order or not, within the store or past it
RangeArgs == (0..MaxStore) \X (0..MaxStore)

SetActiveRange ==
    \E r \in RangeArgs :
        /\ UNCHANGED <<jvars, red, thr, lz>>
        /\ IF gs.length_original = 0
           THEN /\ gs' = gs
                /\ vlast' = [NoOp EXCEPT !.op = "set_active_range", !.a = r[1], !.b = r[2],
                                         !.pre = gs, !.out = Raised("ZeroDivisionError")]
           ELSE /\ gs' = SetRange(gs, r[1], r[2])
                /\ vlast' = [NoOp EXCEPT !.op = "set_active_range", !.a = r[1], !.b = r[2],
                                         !.pre = gs]

\* a slice whose start lies past its stop leaves a view of negative length;
\* no further slice is taken of such a view, which keeps the lengths bounded
SliceView ==
    \E a, b \in {None} \cup (0..MaxStore) :
        LET res == GetSlice(gs, a, b)
        IN  /\ UNCHANGED <<jvars, red, thr, lz>>
            /\ ViewLen(gs) >= 0
            /\ gs' = IF res.status = "ok" THEN res.value ELSE gs
            /\ vlast' = [NoOp EXCEPT !.op = "slice", !.a = a, !.b = b, !.pre = gs,
                                     !.out = IF res.status = "ok" THEN Ok(None) ELSE res]

TrimView ==
    /\ UNCHANGED <<jvars, red, thr, lz>>
    /\ gs' = Trim(gs)
    /\ vlast' = [NoOp EXCEPT !.op = "trim", !.pre = gs]

\* GeoSeries.copy: the same fields in a new object
CopyView ==
    /\ UNCHANGED <<jvars, red, thr, lz>>
    /\ gs' = gs
    /\ vlast' = [NoOp EXCEPT !.op = "copy", !.pre = gs]

TakeView ==
    \E indices \in SeqsUpTo(0..MaxStore, 1, MaxTake) :
        LET res == Take(gs, indices)
        IN  /\ UNCHANGED <<jvars, red, thr, lz>>
            /\ gs' = IF res.status = "ok" THEN res.value ELSE gs
            /\ vlast' = [NoOp EXCEPT !.op = "take", !.indices = indices, !.pre = gs,
                                     !.out = IF res.status = "ok" THEN Ok(None) ELSE res]

GetItemView ==
    \E i \in 0..MaxStore :
        /\ UNCHANGED <<jvars, red, thr, lz>>
        /\ gs' = gs
        /\ vlast' = [NoOp EXCEPT !.op = "getitem", !.a = i, !.pre = gs, !.out = GetItem(gs, i)]

ViewNext ==
    \/ SetActiveRange
    \/ SliceView
    \/ TrimView
    \/ CopyView
    \/ TakeView
    \/ GetItemView

(***************************************************************************)
(* GeoSeries with a dataframe: __init__(geometry, df=df) takes the active  *)
(* range from df, a field of df that is 0 or None giving way to the length *)
(* of the geometry.  df is None, or the fields of the dataframe.           *)
(***************************************************************************)
NoDf == [attached |-> FALSE, index_start |-> 0, index_end |-> 0,
         length_original |-> 0, length_unfiltered |-> 0]

\* x or y of Python, for numbers
PyOr(x, y) == IF x = 0 \/ x = None THEN y ELSE x

NewGeoSeriesDf(g, df) ==
    IF ~df.attached THEN NewGeoSeries(g)
    ELSE LET lo == PyOr(df.length_original, GLen(g))
         IN  [geometry |-> g, index_start |-> df.index_start,
              index_end |-> PyOr(df.index_end, lo),
              length_original |-> lo,
              length_unfiltered |-> PyOr(df.length_unfiltered, lo)]

\* GeoSeries.chunked(chunksize): the pieces geometry[lower:upper] of the
\* active range, chunksize rows each
RECURSIVE ChunkedFrom(_, _, _, _)
ChunkedFrom(v, chunksize, i, lower) ==
    IF i > v.length_unfiltered \div chunksize + 1 THEN <<>>
    ELSE LET upper == Min2(i * chunksize + v.index_start, v.length_unfiltered + v.index_start)
         IN  IF upper <= lower
             THEN ChunkedFrom(v, chunksize, i + 1, lower)
             ELSE <<Flat(GeomSlice(v.geometry, lower, upper))>>
                      \o ChunkedFrom(v, chunksize, i + 1, upper)

\* chunked lines 122-123: offset = self._index_start; lower = offset
ChunkedFromZero(v, chunksize) == ChunkedFrom(v, chunksize, 1, 0)
Chunked(v, chunksize) == ChunkedFrom(v, chunksize, 1, v.index_start)

\* no geometry: the box of no bounds, a None entry of a store
NoGeom == <<0, -1>>

\* pg.box(*pg.total_bounds(geoms)): the box around the geometries, missing
\* ones left out; no geometry at all gives no box
BoxOf(geoms) ==
    LET real == {k \in 1..Len(geoms) : geoms[k] # NoGeom}
    IN  IF real = {} THEN NoGeom
        ELSE <<CHOOSE x \in {geoms[k][1] : k \in real} : \A k \in real : x <= geoms[k][1],
               CHOOSE x \in {geoms[k][2] : k \in real} : \A k \in real : x >= geoms[k][2]>>

\* funcs.total_bounds(arr), the task of a worker
TotalBoundsOfChunk(chunk) == BoxOf(chunk)

\* GeoSeries._total_bounds_single: the box of to_pygeos(), the active geometry
TotalBoundsSingle(v) == BoxOf(Flat(ActiveGeometry(v)))

(***************************************************************************)
(* GeoSeries.total_bounds(chunksize) as a state machine: a pass partitions *)
(* the view; one partition is answered at once; otherwise one task per     *)
(* partition runs in a process pool, the results are gathered as the tasks *)
(* complete, and the next pass runs on the view of the results.            *)
(***************************************************************************)
\* no task has raised; otherwise the pass in which a task raised and the
\* number of results gathered before it
NoFailure == [pass |-> None, gathered |-> None]

\* _multiprocess line 218, f.result() of a task that raised: the exception
\* is raised again in the caller and leaves _multiprocess and every
\* enclosing total_bounds frame, with their partitions and partial results
ResultRaisesSkipped(r, k) ==
    [r EXCEPT !.pending = @ \ {k},
              !.failed = [pass |-> r.depth, gathered |-> Len(r.result)]]
ResultRaises(r, k) ==
    [r EXCEPT !.pc = "done", !.ret = Raised("TaskError"),
              !.chunks = <<>>, !.pending = {}, !.result = <<>>,
              !.failed = [pass |-> r.depth, gathered |-> Len(r.result)]]

ReduceIdle ==
    red = [pc |-> "idle", view |-> NewGeoSeries(ArrayOf(<<>>)), df |-> NoDf, chunksize |-> 1,
           input |-> NewGeoSeries(ArrayOf(<<>>)), chunks |-> <<>>, pending |-> {},
           result |-> <<>>, depth |-> 0, ret |-> Ok(NoGeom), failed |-> NoFailure]

\* the views total_bounds is called on: a store with an active range within
\* it, alone or as the geometry of a dataframe with the same range
ReduceInputs ==
    {[view |-> SetRange(NewGeoSeries(ArrayOf(s)), r[1], r[2]), attached |-> att]
        : s \in SeqsUpTo(StoreGeoms, 1, MaxPoolRows),
          r \in {q \in (0..MaxPoolRows) \X (0..MaxPoolRows) : q[1] <= q[2]},
          att \in BOOLEAN}

ReduceInit ==
    \E i \in {x \in ReduceInputs : x.view.index_end <= GLen(x.view.geometry)} :
    \E cs \in 1..MaxChunkSize :
        red = [pc |-> "call", view |-> i.view,
               df |-> IF i.attached
                      THEN [attached |-> TRUE, index_start |-> i.view.index_start,
                            index_end |-> i.view.index_end,
                            length_original |-> i.view.length_original,
                            length_unfiltered |-> i.view.length_unfiltered]
                      ELSE NoDf,
               chunksize |-> cs, input |-> i.view, chunks |-> <<>>, pending |-> {},
               result |-> <<>>, depth |-> 0, ret |-> Ok(NoGeom), failed |-> NoFailure]

\* total_bounds lines 225-228: partition, answer a single partition, or submit
TotalBoundsPass ==
    /\ red.pc = "call"
    /\ LET chunks == Chunked(red.view, red.chunksize)
       IN  IF Len(chunks) = 1
           THEN red' = [red EXCEPT !.pc = "done", !.ret = Ok(TotalBoundsSingle(red.view))]
           ELSE IF red.depth >= MaxDepth
           THEN red' = [red EXCEPT !.pc = "done", !.ret = Raised("RecursionError")]
           ELSE red' = [red EXCEPT !.pc = "pool", !.chunks = chunks,
                                   !.pending = 1..Len(chunks), !.result = <<>>]
    /\ UNCHANGED <<jvars, vvars, thr, lz>>

\* _multiprocess lines 217-218: as_completed hands over a finished task, in
\* the order the tasks finish
TaskCompleted ==
    /\ red.pc = "pool"
    /\ \E k \in red.pending :
          red' = [red EXCEPT !.pending = @ \ {k},
                             !.result = Append(@, TotalBoundsOfChunk(red.chunks[k]))]
    /\ UNCHANGED <<jvars, vvars, thr, lz>>

\* _multiprocess lines 217-218: as_completed hands over a task that raised;
\* any of the pending tasks may be the one
TaskRaised ==
    /\ red.pc = "pool"
    /\ red.pending # {}
    /\ red' = ResultRaises(red, CHOOSE k \in red.pending : TRUE)
    /\ UNCHANGED <<jvars, vvars, thr, lz>>

\* total_bounds lines 229-230: the view of the results, and the next pass
NextPass ==
    /\ red.pc = "pool"
    /\ red.pending = {}
    /\ red' = [red EXCEPT !.pc = "call", !.depth = @ + 1, !.chunks = <<>>, !.result = <<>>,
                          !.view = NewGeoSeriesDf(ArrayOf(red.result), red.df)]
    /\ UNCHANGED <<jvars, vvars, thr, lz>>

ReduceNext ==
    \/ TotalBoundsPass
    \/ TaskCompleted
    \/ TaskRaised
    \/ NextPass

(***************************************************************************)
(* The thread-pool regime: Predicates._predicate(func, ...) and            *)
(* Measurement._measurement(func, ...), which are the same code.  The      *)
(* dataframe's geometry is partitioned, one task per partition is given to *)
(* a ThreadPoolExecutor(nthreads), each task returns (thread_index,        *)
(* result), and the pieces are concatenated.                               *)
(***************************************************************************)
\* the geometry the predicate is asked about
QueryGeom == <<0, 1>>

\* func on one row: pg.within(row, geom) for a predicate, pg.length(row) for
\* a measurement
RowResult(regime, g) ==
    IF regime = "predicate" THEN (IF Within(g, QueryGeom) THEN 1 ELSE 0) ELSE g[2] - g[1]

\* the functions that answer row by row
RowRegimes == {"predicate", "measurement"}

\* func on the rows of a partition: one entry a row, or for pg.total_bounds
\* (Measurement.total_bounds) the extent of the partition, xmin then xmax
ChunkResult(regime, chunk) ==
    IF regime \in RowRegimes THEN [k \in 1..Len(chunk) |-> RowResult(regime, chunk[k])]
    ELSE BoxOf(chunk)

\* _multithread line 61 / 34: results[thread_index] = result; nth counts the
\* tasks gathered so far
StoreByCompletion(results, nth, thread_index, result) == [results EXCEPT ![nth] = result]
StoreResult(results, nth, thread_index, result) == [results EXCEPT ![thread_index] = result]

\* results = [False] * len(chunks): a slot holds no piece yet
NoPiece == <<>>

ThreadIdle ==
    thr = [pc |-> "idle", view |-> NewGeoSeries(ArrayOf(<<>>)), regime |-> "predicate",
           nthreads |-> 1, chunks |-> <<>>, pending |-> {}, results |-> <<>>,
           order |-> <<>>, ret |-> Ok(<<>>), failed |-> FALSE]

NThreads == {1, 2}

ThreadInit ==
    \E s \in SeqsUpTo(Geoms, 1, MaxPoolRows) :
    \E r \in {q \in (0..MaxPoolRows) \X (0..MaxPoolRows) : q[1] <= q[2] /\ q[2] <= Len(s)} :
    \E regime \in RowRegimes \cup {"total_bounds"} :
    \E n \in NThreads :
        thr = [pc |-> "call", view |-> SetRange(NewGeoSeries(ArrayOf(s)), r[1], r[2]),
               regime |-> regime, nthreads |-> n, chunks |-> <<>>, pending |-> {},
               results |-> <<>>, order |-> <<>>, ret |-> Ok(<<>>), failed |-> FALSE]

\* _predicate lines 65-66 and _multithread lines 55-58: partition and submit
SubmitTasks ==
    /\ thr.pc = "call"
    /\ LET chunks == Chunked(thr.view, ThreadChunkSize)
       IN  thr' = [thr EXCEPT !.pc = "pool", !.chunks = chunks, !.pending = 1..Len(chunks),
                              !.results = [k \in 1..Len(chunks) |-> NoPiece]]
    /\ UNCHANGED <<jvars, vvars, red, lz>>

\* _multithread lines 59-61: as_completed hands over a finished task; with a
\* single thread the tasks finish in the order they were submitted
TaskFinished ==
    /\ thr.pc = "pool"
    /\ \E k \in thr.pending :
          /\ thr.nthreads = 1 => \A j \in thr.pending : k <= j
          /\ thr' = [thr EXCEPT !.pending = @ \ {k},
                                !.order = Append(@, k),
                                !.results = StoreResult(@, Len(thr.order) + 1, k,
                                                        ChunkResult(thr.regime, thr.chunks[k]))]
    /\ UNCHANGED <<jvars, vvars, red, lz>>

\* _multithread line 60, f.result() of a task that raised: the exception
\* leaves _multithread and _predicate, with the pieces gathered so far
TaskFailed ==
    /\ thr.pc = "pool"
    /\ thr.pending # {}
    /\ thr' = [thr EXCEPT !.pc = "done", !.ret = Raised("TaskError"),
                          !.chunks = <<>>, !.pending = {}, !.results = <<>>,
                          !.failed = TRUE]
    /\ UNCHANGED <<jvars, vvars, red, lz>>

\* _predicate line 72: np.concatenate(pieces), which needs at least one piece
Concatenate ==
    /\ thr.pc = "pool"
    /\ thr.pending = {}
    /\ thr' = [thr EXCEPT !.pc = "done",
                          !.ret = IF Len(thr.results) = 0 THEN Raised("ValueError")
                                  ELSE Ok(Flatten(thr.results))]
    /\ UNCHANGED <<jvars, vvars, red, lz>>

ThreadNext ==
    \/ SubmitTasks
    \/ TaskFinished
    \/ TaskFailed
    \/ Concatenate

(***************************************************************************)
(* LazyObj (lazy.py): a pipeline is a base array and three Python lists,   *)
(* the step functions, their positional and their keyword arguments, with  *)
(* a counter of the steps.  Python lists are objects: lz.lists is the heap *)
(* of lists, and a pipeline holds the places of its three lists in it.     *)
(***************************************************************************)
\* the base arrays
LazyBases == {<<0>>, <<1>>, <<0, 1>>}

\* the step functions, pure and not commuting, with their arguments
LazySteps == [fn : {"add", "mul"}, arg : {1, 2}, kw : {0, 1}]

\* the operation names given to funcs.constructive: two of the supported
\* ones, and a name that is not supported
SupportedOperations == {"buffer", "envelope"}
Operations == SupportedOperations \cup {"bogus"}

\* None in the place of an array: what a step returns when it returns no
\* value, and what the pygeos functions return when given it
NoneArr == <<None>>

\* funcs.constructive(arr, operation, radius): the if / elif chain on the
\* operation name; a name outside the chain warns and returns None
Constructive(arr, operation, radius) ==
    IF operation = "buffer" THEN [k \in 1..Len(arr) |-> arr[k] + radius]
    ELSE IF operation = "envelope" THEN arr
    ELSE NoneArr

\* function(result, *args, **kwargs) on an array
ApplyStep(fn, arr, arg, kw) ==
    IF arr = NoneArr THEN NoneArr
    ELSE IF fn = "constructive" THEN Constructive(arr, arg, kw)
    ELSE [k \in 1..Len(arr) |-> IF fn = "add" THEN arr[k] + arg + kw ELSE arr[k] * arg + kw]

\* the loop of LazyObj.values: steps i .. counter applied in turn
RECURSIVE ApplyChainBackwards(_, _, _, _, _, _)
ApplyChainBackwards(fs, as, ks, counter, result, i) ==
    IF i > counter THEN result
    ELSE ApplyChainBackwards(fs, as, ks, counter,
                             ApplyStep(fs[counter - i + 1], result, as[counter - i + 1],
                                       ks[counter - i + 1]), i + 1)
RECURSIVE ApplyChain(_, _, _, _, _, _)
ApplyChain(fs, as, ks, counter, result, i) ==
    IF i > counter THEN result
    ELSE ApplyChain(fs, as, ks, counter, ApplyStep(fs[i], result, as[i], ks[i]), i + 1)

\* LazyObj.values of pipeline o over the heap of lists
LazyValues(lists, o) ==
    ApplyChain(lists[o.function], lists[o.args], lists[o.kwargs], o.counter, o.obj, 1)

\* LazyObj.copy: a new pipeline over new lists holding the same entries
LazyCopyAliased(lists, o) == [lists |-> lists, obj |-> o]
LazyCopy(lists, o) ==
    [lists |-> lists \o <<lists[o.function], lists[o.args], lists[o.kwargs]>>,
     obj   |-> [function |-> Len(lists) + 1, args |-> Len(lists) + 2,
                kwargs |-> Len(lists) + 3, obj |-> o.obj, counter |-> o.counter]]

\* list.append on the lists of pipeline o, and its counter += 1
LazyAppend(lists, o, st) ==
    [lists |-> [lists EXCEPT ![o.function] = Append(@, st.fn),
                             ![o.args] = Append(@, st.arg),
                             ![o.kwargs] = Append(@, st.kw)],
     obj   |-> [o EXCEPT !.counter = @ + 1]]

\* LazyObj.__init__: three new empty lists, no base
LazyNew(lists) ==
    [lists |-> lists \o <<<<>>, <<>>, <<>>>>,
     obj   |-> [function |-> Len(lists) + 1, args |-> Len(lists) + 2,
                kwargs |-> Len(lists) + 3, obj |-> <<>>, counter |-> 0]]

\* LazyObj.add(function, *args, **kwargs)
LazyAddTo(lists, o, st) ==
    LET c == LazyCopy(lists, o)
    IN  LazyAppend(c.lists, c.obj, st)

NoCall == [op |-> "none", recv |-> 0, step |-> [fn |-> "add", arg |-> 0, kw |-> 0],
           base |-> <<>>, pre |-> [objs |-> <<>>, lists |-> <<>>], out |-> Ok(<<>>)]

LazyIdle == lz = [objs |-> <<>>, lists |-> <<>>, last |-> NoCall]

\* Lazy.__call__ on a pyarrow array: LazyObj.init(function, obj, *args, **kwargs)
LazyInit ==
    /\ lz.objs = <<>>
    /\ \E base \in LazyBases : \E st \in LazySteps :
          LET n == LazyNew(lz.lists)
              a == LazyAppend(n.lists, [n.obj EXCEPT !.obj = base], st)
          IN  lz' = [objs |-> Append(lz.objs, a.obj), lists |-> a.lists,
                     last |-> [NoCall EXCEPT !.op = "init", !.step = st, !.base = base,
                                             !.pre = [objs |-> lz.objs, lists |-> lz.lists]]]
    /\ UNCHANGED <<jvars, vvars, red, thr>>

\* Lazy.__call__ on a pipeline: obj.add(function, *args, **kwargs)
LazyAdd ==
    /\ Len(lz.objs) < MaxObjs
    /\ \E p \in 1..Len(lz.objs) : \E st \in LazySteps :
          LET a == LazyAddTo(lz.lists, lz.objs[p], st)
          IN  lz' = [objs |-> Append(lz.objs, a.obj), lists |-> a.lists,
                     last |-> [NoCall EXCEPT !.op = "add", !.recv = p, !.step = st,
                                             !.pre = [objs |-> lz.objs, lists |-> lz.lists]]]
    /\ UNCHANGED <<jvars, vvars, red, thr>>

\* funcs.constructive(obj, operation, radius=1), a function wrapped by Lazy:
\* on a pyarrow array (recv 0) LazyObj.init, on a pipeline add; the operation
\* name is kept as the step's argument and looked at when the step runs
LazyConstructive ==
    /\ Len(lz.objs) < MaxObjs
    /\ \E p \in 0..Len(lz.objs) : \E base \in LazyBases : \E operation \in Operations :
          LET st == [fn |-> "constructive", arg |-> operation, kw |-> 1]
              n  == LazyNew(lz.lists)
              a  == IF p = 0 THEN LazyAppend(n.lists, [n.obj EXCEPT !.obj = base], st)
                    ELSE LazyAddTo(lz.lists, lz.objs[p], st)
          IN  /\ p = 0 => lz.objs = <<>>
              /\ p # 0 => base = lz.objs[p].obj
              /\ lz' = [objs |-> Append(lz.objs, a.obj), lists |-> a.lists,
                        last |-> [NoCall EXCEPT !.op = "constructive", !.recv = p, !.step = st,
                                                !.base = base,
                                                !.pre = [objs |-> lz.objs, lists |-> lz.lists]]]
    /\ UNCHANGED <<jvars, vvars, red, thr>>

\* LazyObj.values() of an alive pipeline
LazyMaterialize ==
    /\ \E p \in 1..Len(lz.objs) :
          lz' = [lz EXCEPT !.last = [NoCall EXCEPT !.op = "values", !.recv = p,
                                                  !.pre = [objs |-> lz.objs, lists |-> lz.lists],
                                                  !.out = Ok(LazyValues(lz.lists, lz.objs[p]))]]
    /\ UNCHANGED <<jvars, vvars, red, thr>>

LazyNext ==
    \/ LazyInit
    \/ LazyAdd
    \/ LazyConstructive
    \/ LazyMaterialize

(***************************************************************************)
(* The join as a state machine: the arguments are drawn, the call is made. *)
(***************************************************************************)
Hows == {"left", "right", "inner"}
Ops == {"contains", "within", "intersects", "dwithin"}
Distances == {None, 1}
\* the CRS of an input: undefined, or EPSG:4326; with one defined CRS the
\* reprojection of line 57 is never called for
CrsCodes == {None, 4326}

JoinInputs ==
    [left : SeqsUpTo(Geoms, 1, MaxRows), right : SeqsUpTo(Geoms, 1, MaxRows),
     lcrs : CrsCodes, rcrs : CrsCodes,
     how : Hows, op : Ops, distance : Distances,
     allow_duplication : BOOLEAN, noneDup : BOOLEAN]

NoOutcome == [status |-> "none"]

JoinInit ==
    /\ jpc = "call"
    /\ jin \in {i \in JoinInputs :
                    /\ i.op # "dwithin" => i.distance = None
                    /\ (CrsUndefined(i.lcrs) \/ CrsUndefined(i.rcrs)) =>
                           (i.allow_duplication /\ ~i.noneDup)}
    /\ jout = NoOutcome
    /\ gs = NewGeoSeries(ArrayOf(<<>>))
    /\ vlast = NoOp
    /\ ReduceIdle
    /\ ThreadIdle
    /\ LazyIdle

SJoinCall ==
    /\ jpc = "call"
    /\ jout' = SJoin(jin.left, jin.right, jin.lcrs, jin.rcrs, jin.how, jin.op, jin.distance,
                     jin.allow_duplication, jin.noneDup)
    /\ jpc' = "done"
    /\ UNCHANGED <<jin, vvars, red, thr, lz>>

JoinNext == SJoinCall

vars == <<jvars, vvars, red, thr, lz>>

SpecJoin == JoinInit /\ [][JoinNext]_vars

JoinIdle ==
    /\ jpc = "idle"
    /\ jin = [left |-> <<>>, right |-> <<>>, lcrs |-> None, rcrs |-> None,
              how |-> "left", op |-> "within", distance |-> None,
              allow_duplication |-> TRUE, noneDup |-> FALSE]
    /\ jout = NoOutcome

ViewSpecInit == ViewInit /\ JoinIdle /\ ReduceIdle /\ ThreadIdle /\ LazyIdle

ViewIdle ==
    /\ gs = NewGeoSeries(ArrayOf(<<>>))
    /\ vlast = NoOp

ReduceSpecInit == ReduceInit /\ JoinIdle /\ ViewIdle /\ ThreadIdle /\ LazyIdle

SpecReduce == ReduceSpecInit /\ [][ReduceNext]_vars

ThreadSpecInit == ThreadInit /\ JoinIdle /\ ViewIdle /\ ReduceIdle /\ LazyIdle

SpecThreads == ThreadSpecInit /\ [][ThreadNext]_vars

SpecView == ViewSpecInit /\ [][ViewNext]_vars

\* the two pool regimes side by side: a call is a total_bounds reduction in
\* the process pool or a predicate / measurement in the thread pool
PoolsInit ==
    /\ JoinIdle /\ ViewIdle /\ LazyIdle
    /\ \/ ReduceInit /\ ThreadIdle
       \/ ThreadInit /\ ReduceIdle

PoolsNext == ReduceNext \/ ThreadNext

SpecPools == PoolsInit /\ [][PoolsNext]_vars

LazySpecInit == LazyIdle /\ JoinIdle /\ ViewIdle /\ ReduceIdle /\ ThreadIdle

SpecLazy == LazySpecInit /\ [][LazyNext]_vars

(***************************************************************************)
(* What the claims about the join speak of.                                *)
(***************************************************************************)
\* op(a, b) as the caller states it, the distance predicate by the distance
ExactHolds(op, a, b, d) ==
    CASE op = "contains"   -> Contains(a, b)
      [] op = "within"     -> Within(a, b)
      [] op = "intersects" -> Intersects(a, b)
      [] op = "dwithin"    -> d # None /\ Distance(a, b) <= d

LeftRows == 0..(Len(jin.left) - 1)
RightRows == 0..(Len(jin.right) - 1)

\* the pairs (l, r) of the call for which op(left[l], right[r]) holds
MatchPairs ==
    {p \in LeftRows \X RightRows :
        ExactHolds(jin.op, jin.left[p[1] + 1], jin.right[p[2] + 1], jin.distance)}

ResultPairs == {<<jout.rows[k].l, jout.rows[k].r>> : k \in 1..Len(jout.rows)}

JoinReturned == jpc = "done" /\ jout.status = "ok"

DistanceGiven == jin.op = "dwithin" => jin.distance # None

\* both inputs have a CRS
CrsGiven == ~CrsUndefined(jin.lcrs) /\ ~CrsUndefined(jin.rcrs)

\* C1: with how='left', every row of the left input is in the result, with a
\* missing right side when it matches nothing, whatever the row counts.
C1_LeftKeepsAllLeftRows ==
    (JoinReturned /\ jin.how = "left" /\ jin.allow_duplication) =>
        \A l \in LeftRows :
            /\ \E p \in ResultPairs : p[1] = l
            /\ (~\E r \in RightRows : <<l, r>> \in MatchPairs) => <<l, None>> \in ResultPairs

\* C2: with how='right', every row of the right input is in the result, with
\* a missing left side when it matches nothing, whatever the row counts.
C2_RightKeepsAllRightRows ==
    (JoinReturned /\ jin.how = "right" /\ jin.allow_duplication) =>
        \A r \in RightRows :
            /\ \E p \in ResultPairs : p[2] = r
            /\ (~\E l \in LeftRows : <<l, r>> \in MatchPairs) => <<None, r>> \in ResultPairs

\* C3: with how='inner' the result has exactly one row per pair (l, r) with
\* op(left[l], right[r]), and no other row, swapped or not; with duplication
\* allowed, the distance given and both CRS defined the join returns.
C3_InnerIsExactlyTheMatchingPairs ==
    (jpc = "done" /\ jin.how = "inner") =>
        /\ (jin.allow_duplication /\ DistanceGiven /\ CrsGiven) => jout.status = "ok"
        /\ jout.status = "ok" =>
              /\ ResultPairs = MatchPairs
              /\ Len(jout.rows) = Cardinality(MatchPairs)

C3_Witness ==
    /\ JoinReturned /\ jin.how = "inner" /\ jin.op = "within"
    /\ jout.swapped
    /\ Len(jout.rows) = 1
    /\ Cardinality(MatchPairs) < Len(jin.left) * Len(jin.right)

\* C4: sjoin(A, B, 'within', 'inner') and sjoin(B, A, 'contains', 'inner')
\* give the same (A-row, B-row) correspondences.
C4_SwapInvariance ==
    (jpc = "done" /\ jin.how = "inner" /\ jin.op = "within") =>
        LET mirror == SJoin(jin.right, jin.left, jin.rcrs, jin.lcrs, "inner", "contains",
                            jin.distance, jin.allow_duplication, jin.noneDup)
            mirrorPairs == {<<mirror.rows[k].r, mirror.rows[k].l>> : k \in 1..Len(mirror.rows)}
        IN  /\ (jin.allow_duplication /\ CrsGiven) =>
                   (jout.status = "ok" /\ mirror.status = "ok")
            /\ (jout.status = "ok" /\ mirror.status = "ok") =>
                  /\ ResultPairs = mirrorPairs
                  /\ Len(jout.rows) = Len(mirror.rows)

C4_Witness ==
    /\ JoinReturned /\ jin.how = "inner" /\ jin.op = "within"
    /\ Len(jin.left) < Len(jin.right)
    /\ <<0, 1>> \in ResultPairs /\ <<0, 0>> \notin ResultPairs

\* C5: with allow_duplication=False, a join in which one left row matches two
\* right rows fails with the duplication error, whatever the row counts.
C5_DuplicateDisallowedFails ==
    (/\ jpc = "done" /\ ~jin.allow_duplication /\ DistanceGiven /\ CrsGiven
     /\ \E l \in LeftRows : \E r1, r2 \in RightRows :
            r1 # r2 /\ <<l, r1>> \in MatchPairs /\ <<l, r2>> \in MatchPairs)
        => (jout.status = "error" /\ jout.error = "duplication")

(***************************************************************************)
(* What the claims about the view speak of.                                *)
(***************************************************************************)
\* the active range lies within the store and the length is its width
RangeOk(v) ==
    /\ 0 <= v.index_start /\ v.index_start <= v.index_end
    /\ v.index_end <= GLen(v.geometry)
    /\ v.length_unfiltered = v.index_end - v.index_start

\* row i of the active range of a view
ActiveRow(v, i) == Flat(v.geometry)[v.index_start + i + 1]

\* C6: take returns the rows in the requested order: take(idx)[j] is row
\* idx[j] of the view, for every in-range idx and every chunk layout.
C6_TakeKeepsRequestedOrder ==
    (/\ vlast.op = "take" /\ RangeOk(vlast.pre)
     /\ \A j \in 1..Len(vlast.indices) : vlast.indices[j] < ViewLen(vlast.pre))
        => /\ vlast.out.status = "ok"
           /\ \A j \in 1..Len(vlast.indices) :
                  GetItem(gs, j - 1) = Ok(ActiveRow(vlast.pre, vlast.indices[j]))

\* C7: trim changes no element: view[i] before trim is view.trim()[i], for
\* every active range and every i below the length.
C7_TrimChangesNoElement ==
    (vlast.op = "trim" /\ RangeOk(vlast.pre)) =>
        \A i \in 0..(ViewLen(vlast.pre) - 1) : GetItem(vlast.pre, i) = GetItem(gs, i)

\* C8: view[a:b] has length b - a for all 0 <= a <= b <= length, b = 0 included.
C8_SliceLengthIsWidth ==
    (/\ vlast.op = "slice" /\ RangeOk(vlast.pre)
     /\ vlast.a # None /\ vlast.b # None
     /\ vlast.a <= vlast.b /\ vlast.b <= ViewLen(vlast.pre)
     /\ ViewLen(vlast.pre) > 0)
        => /\ vlast.out.status = "ok"
           /\ ViewLen(gs) = vlast.b - vlast.a

(***************************************************************************)
(* What the claims about the reduction speak of.                           *)
(***************************************************************************)
\* the rows of the active range of a view
ActiveRows(v) == PySlice(Flat(v.geometry), v.index_start, v.index_end)

\* C9: for every view, with any active range, and every chunksize >= 2,
\* total_bounds(chunksize) returns the box of exactly the rows of the active
\* range (and so the same box for every chunksize).
C9_TotalBoundsIsBoxOfActiveRange ==
    (red.pc = "done" /\ red.chunksize >= 2 /\ red.ret.status = "ok") =>
        red.ret.value = BoxOf(ActiveRows(red.input))

(***************************************************************************)
(* What the claims about the thread pool speak of.                         *)
(***************************************************************************)
\* func applied to the rows of the active range, in row order
SequentialResult ==
    LET rows == ActiveRows(thr.view)
    IN  [k \in 1..Len(rows) |-> RowResult(thr.regime, rows[k])]

\* C10: for every completion order of the tasks, the concatenated output is
\* the chunk-sequential result: entry k is func of row k of the active range.
\* A call on a non-empty active range returns.
C10_ThreadOutputInRowOrder ==
    (thr.pc = "done" /\ thr.regime \in RowRegimes /\ ~thr.failed) =>
        /\ thr.view.length_unfiltered > 0 => thr.ret.status = "ok"
        /\ thr.ret.status = "ok" => thr.ret.value = SequentialResult

\* the last partition finished first, and the order shows in the output
C10_Witness ==
    /\ thr.pc = "done" /\ thr.ret.status = "ok" /\ thr.regime \in RowRegimes
    /\ Len(thr.order) = 3 /\ thr.order[1] = 3 /\ thr.order[3] = 1
    /\ Flatten([k \in 1..3 |-> thr.results[thr.order[k]]]) # thr.ret.value
    /\ thr.ret.value = SequentialResult

(***************************************************************************)
(* What the claims about the process pool speak of.                        *)
(***************************************************************************)
\* C11: in the process pool (_multiprocess), the list of per-chunk results is
\* in partition order for every completion order: result k is the result of
\* chunk k.
C11_PoolResultsInPartitionOrder ==
    (red.pc = "pool" /\ red.pending = {}) =>
        /\ Len(red.result) = Len(red.chunks)
        /\ \A k \in 1..Len(red.chunks) : red.result[k] = TotalBoundsOfChunk(red.chunks[k])

(***************************************************************************)
(* What the claims about the lazy pipelines speak of.                      *)
(***************************************************************************)
\* the pipeline the last call returned
LazyReturned == lz.objs[Len(lz.objs)]

\* C12: pipeline composition: LazyObj.init(f, base).values() is f(base), and
\* p.add(g).values() is g applied to p.values(), so init(f, base).add(g)
\* materializes to g(f(base)).
C12_AddComposes ==
    /\ lz.last.op = "init" =>
           LazyValues(lz.lists, LazyReturned) =
               ApplyStep(lz.last.step.fn, lz.last.base, lz.last.step.arg, lz.last.step.kw)
    /\ lz.last.op = "add" =>
           LazyValues(lz.lists, LazyReturned) =
               ApplyStep(lz.last.step.fn,
                         LazyValues(lz.last.pre.lists, lz.last.pre.objs[lz.last.recv]),
                         lz.last.step.arg, lz.last.step.kw)

\* a pipeline of three steps whose order matters has been materialized
C12_Witness ==
    /\ lz.last.op = "add"
    /\ LazyReturned.counter = 3
    /\ LazyValues(lz.lists, LazyReturned) #
           ApplyChainBackwards(lz.lists[LazyReturned.function], lz.lists[LazyReturned.args],
                               lz.lists[LazyReturned.kwargs], 3, LazyReturned.obj, 1)

\* what a caller can see of pipeline o
LazyObserved(lists, o) ==
    [function |-> lists[o.function], args |-> lists[o.args], kwargs |-> lists[o.kwargs],
     obj |-> o.obj, counter |-> o.counter, values |-> LazyValues(lists, o)]

\* C13: add never mutates its receiver, nor any other pipeline: after an add,
\* every pipeline that existed before it has the step list, argument lists,
\* counter and values it had.
C13_AddLeavesReceiver ==
    lz.last.op = "add" =>
        \A p \in 1..Len(lz.last.pre.objs) :
            LazyObserved(lz.lists, lz.objs[p]) = LazyObserved(lz.last.pre.lists, lz.last.pre.objs[p])

\* two pipelines have been extended from the same receiver, with different steps
C13_Witness ==
    /\ lz.last.op = "add"
    /\ Len(lz.objs) = 3
    /\ lz.last.recv = 1
    /\ lz.objs[2].counter = 2 /\ lz.objs[3].counter = 2
    /\ LazyValues(lz.lists, lz.objs[2]) # LazyValues(lz.lists, lz.objs[3])

(***************************************************************************)
(* What the claims about the errors of sjoin speak of.                     *)
(***************************************************************************)
\* C14: sjoin with op = 'dwithin' and no distance fails with an error and
\* returns no join result, for every pair of inputs.
C14_DWithinNeedsDistance ==
    (jpc = "done" /\ jin.op = "dwithin" /\ jin.distance = None) =>
        /\ jout.status = "error" /\ jout.rows = <<>>
        /\ CrsGiven => jout.error = "distance"

\* the call has failed for lack of a distance, on inputs that match and are swapped
C14_Witness ==
    /\ jpc = "done" /\ jin.op = "dwithin" /\ jin.distance = None
    /\ jout.status = "error" /\ jout.error = "distance"
    /\ jout.swapped
    /\ \E l \in LeftRows, r \in RightRows : Intersects(jin.left[l + 1], jin.right[r + 1])

(***************************************************************************)
(* What the claims about the errors of the view speak of.                  *)
(***************************************************************************)
\* C15: take fails with an out-of-range error if any requested index is
\* outside [0, length), other indices being in range or not and the store
\* having one chunk or several; it never returns a result that leaves the
\* out-of-range positions out.
C15_TakeOutOfRangeFails ==
    (/\ vlast.op = "take" /\ RangeOk(vlast.pre)
     /\ \E j \in 1..Len(vlast.indices) : vlast.indices[j] >= ViewLen(vlast.pre))
        => vlast.out = Raised("IndexError")

\* C16: windowing rejects bad bounds: set_active_range(i1, i2) and view[i1:i2]
\* with i1 > i2, or with a bound past the length, fail with an error and leave
\* the active range of the view as it was.
C16_BadBoundsRejected ==
    (/\ vlast.op \in {"set_active_range", "slice"} /\ RangeOk(vlast.pre)
     /\ vlast.a # None /\ vlast.b # None
     /\ \/ vlast.a > vlast.b
        \/ vlast.b > (IF vlast.op = "slice" THEN ViewLen(vlast.pre)
                      ELSE vlast.pre.length_original))
        => /\ vlast.out.status = "error"
           /\ gs = vlast.pre

\* pipeline o has a constructive step whose operation name is not supported
HasUnsupportedStep(lists, o) ==
    \E i \in 1..o.counter :
        /\ lists[o.function][i] = "constructive"
        /\ lists[o.args][i] \notin SupportedOperations

\* C17: a constructive operation whose name is not supported is fatal: the
\* request raises an error and yields no geometry result; neither the call
\* nor the later materialization of the pipeline produces a value such as None.
C17_UnsupportedOperationIsFatal ==
    /\ (lz.last.op = "constructive" /\ lz.last.step.arg \notin SupportedOperations)
           => lz.last.out.status = "error"
    /\ (lz.last.op = "values" /\ HasUnsupportedStep(lz.lists, lz.objs[lz.last.recv]))
           => lz.last.out.status = "error"

\* C18: Measurement.total_bounds returns, for a dataframe of any number of
\* rows (one chunk or many), a single extent that covers all rows of the
\* active range.
C18_MeasurementTotalBoundsIsOneExtent ==
    (thr.pc = "done" /\ thr.regime = "total_bounds" /\ thr.view.length_unfiltered > 0
     /\ ~thr.failed) =>
        thr.ret = Ok(BoxOf(ActiveRows(thr.view)))

\* C19: the recursive reduction terminates: for every view, standalone or
\* attached to a dataframe, empty or not, and every chunksize >= 1,
\* total_bounds returns; each pass over the partial results has strictly
\* fewer partitions than the pass before it (the partial results are the
\* rows of the store of the next pass).
C19_ReductionTerminates ==
    /\ (red.pc = "call" /\ red.depth > 0) =>
           Len(Chunked(red.view, red.chunksize)) < GLen(red.view.geometry)
    /\ (red.pc = "done" /\ red.failed = NoFailure) => red.ret.status = "ok"

\* C20: orientation: when the bounding-box index is built, the indexed side
\* has at most as many rows as the probing side, for all inputs; the sides
\* are swapped exactly when the left input has fewer rows than the right.
C20_IndexOverSmallerSide ==
    jpc = "done" =>
        /\ jout.swapped <=> Len(jin.left) < Len(jin.right)
        /\ jout.status # "error" \/ jout.error # "distance" => jout.tree <= jout.probe

\* the index has been built over the caller's left side, the smaller one
C20_Witness ==
    /\ jpc = "done" /\ jout.status = "ok"
    /\ jout.swapped
    /\ jout.tree = Len(jin.left) /\ jout.probe = Len(jin.right)
    /\ jout.tree < jout.probe

(***************************************************************************)
(* What the claims about the orientation of sjoin speak of.                *)
(***************************************************************************)
\* C21: predicate inversion on swap: when the sides are swapped 'contains'
\* becomes 'within' and 'within' becomes 'contains', 'intersects' and
\* 'dwithin' stay; when the sides are not swapped the predicate stays.
C21_PredicateInvertedOnSwap ==
    jpc = "done" =>
        /\ (jout.swapped /\ jin.op = "contains") => jout.swap_op = "within"
        /\ (jout.swapped /\ jin.op = "within") => jout.swap_op = "contains"
        /\ (jout.swapped /\ jin.op \in {"intersects", "dwithin"}) => jout.swap_op = jin.op
        /\ ~jout.swapped => jout.swap_op = jin.op

\* a swapped call with 'contains' has queried the index with 'within'
C21_Witness ==
    /\ jpc = "done" /\ jout.status = "ok"
    /\ jout.swapped /\ jin.op = "contains"
    /\ jout.swap_op = "within" /\ jout.op = "within"
    /\ Len(jout.rows) > 0

(***************************************************************************)
(* What the claims about the inputs of sjoin speak of.                     *)
(***************************************************************************)
\* C22: joining two inputs whose CRS are both undefined is accepted: they
\* count as the same CRS, nothing is reprojected, and the join proceeds to a
\* result rather than failing.
C22_UndefinedCrsAccepted ==
    (/\ jpc = "done" /\ CrsUndefined(jin.lcrs) /\ CrsUndefined(jin.rcrs)
     /\ DistanceGiven /\ jin.allow_duplication)
        => jout.status = "ok"

\* C23: when the bulk query returns no pairs, no row of the preserved side is
\* dropped: with how='left' every left row, with how='right' every right row is
\* in the result, with no match (None) on the other side, swapped or not.
C23_NoPairsKeepsPreservedSide ==
    /\ (/\ jpc = "done" /\ CrsGiven /\ DistanceGiven /\ jin.allow_duplication
        /\ MatchPairs = {}) => jout.status = "ok"
    /\ (JoinReturned /\ jout.pairs = 0) =>
        /\ jin.how = "left" =>
               /\ {jout.rows[k].l : k \in 1..Len(jout.rows)} = LeftRows
               /\ \A k \in 1..Len(jout.rows) : jout.rows[k].r = None
               /\ Len(jout.rows) = Len(jin.left)
        /\ jin.how = "right" =>
               /\ {jout.rows[k].r : k \in 1..Len(jout.rows)} = RightRows
               /\ \A k \in 1..Len(jout.rows) : jout.rows[k].l = None
               /\ Len(jout.rows) = Len(jin.right)

\* a swapped left join without any pair has returned both left rows
C23_Witness ==
    /\ JoinReturned /\ jout.pairs = 0
    /\ jin.how = "left" /\ jout.swapped
    /\ Len(jin.left) = 2 /\ Len(jout.rows) = 2

\* C24: sjoin does not modify its inputs: after the call neither of the
\* caller's dataframes has gained a column; no 'join_id' column is left on
\* the caller's left or right dataframe, whatever their row counts.
C24_InputsNotModified ==
    jpc = "done" => jout.join_id_on \cap {"left", "right"} = {}

\* C25: active-range invariant: in every state reached from a fresh view by
\* set_active_range, slicing, trim and copy, 0 <= _index_start <= _index_end
\* <= length of the store, and the unfiltered length is not negative.
C25_ActiveRangeInvariant ==
    /\ 0 <= gs.index_start
    /\ gs.index_start <= gs.index_end
    /\ gs.index_end <= GLen(gs.geometry)
    /\ gs.length_unfiltered >= 0

\* C26: chunked(chunksize) partitions the active range: for a view whose range
\* lies within its store and a chunksize >= 1, the partitions joined in order
\* are the store rows [start, end) in order, each partition has between 1 and
\* chunksize rows, only the last may have fewer than chunksize, and an empty
\* range gives no partition.
C26_ChunkedPartitionsRange ==
    (red.pc = "call" /\ RangeOk(red.view)) =>
        LET v == red.view
            chunks == Chunked(v, red.chunksize)
        IN  /\ Flatten(chunks) = SubSeq(Flat(v.geometry), v.index_start + 1, v.index_end)
            /\ \A k \in 1..Len(chunks) :
                  /\ 1 <= Len(chunks[k]) /\ Len(chunks[k]) <= red.chunksize
                  /\ k < Len(chunks) => Len(chunks[k]) = red.chunksize
            /\ v.index_start = v.index_end => chunks = <<>>

C26_Witness ==
    /\ red.pc = "pool" /\ red.depth = 0 /\ RangeOk(red.view)
    /\ red.view.index_start = 1 /\ red.view.index_end < GLen(red.view.geometry)
    /\ red.chunksize = 2 /\ Len(red.chunks) = 2 /\ Len(red.chunks[2]) = 1
    /\ red.chunks = Chunked(red.view, red.chunksize)

\* C27: row alignment under GeoDataFrame.take(indices): at every position j
\* of the result the geometry and the attribute values both come from source
\* row indices[j], for every index list and every chunk layout of the store.
C27_TakeKeepsRowsAligned ==
    (vlast.op = "take" /\ RangeOk(vlast.pre)) =>
        LET r == GeoDataFrameTake(vlast.pre, vlast.indices)
        IN  r.status = "ok" =>
                /\ Len(r.value.geometry) = Len(vlast.indices)
                /\ \A j \in 1..Len(vlast.indices) :
                      /\ r.value.attrs[j] = vlast.indices[j]
                      /\ r.value.geometry[j] = ActiveRow(vlast.pre, vlast.indices[j])

\* C28: short-circuit: with exactly one partition, or with a worker count of
\* 1, the operation runs in the caller and no pool is created and no task
\* submitted; a pool is in use only with more than one partition and more
\* than one worker.
C28_PoolOnlyWhenParallel ==
    /\ (thr.pc # "idle" /\ (Len(Chunked(thr.view, ThreadChunkSize)) = 1 \/ thr.nthreads = 1))
           => thr.pc # "pool"
    /\ thr.pc = "pool" => (Len(thr.chunks) > 1 /\ thr.nthreads > 1)

\* C29: a task that raises is fatal to the whole call: whatever tasks had
\* completed before it, the enclosing call (total_bounds in the process pool,
\* a predicate or a measurement in the thread pool) has raised, holds no
\* partial result, and the reduction is still in the pass in which the task
\* raised: no further pass has started.
C29_TaskFailureIsFatal ==
    /\ red.failed # NoFailure =>
          /\ red.pc = "done" /\ red.ret = Raised("TaskError")
          /\ red.depth = red.failed.pass
          /\ red.result = <<>> /\ red.pending = {}
    /\ thr.failed =>
          /\ thr.pc = "done" /\ thr.ret = Raised("TaskError")
          /\ thr.results = <<>>

C29_Witness ==
    /\ red.failed # NoFailure /\ red.failed.pass = 1 /\ red.failed.gathered >= 1
    /\ red.pc = "done" /\ red.ret = Raised("TaskError")

\* C30: concatenation keeps geometry and rows aligned: for dataframes with
\* the same CRS, windowed by an active range or not, the geometry store of
\* the concatenated dataframe has as many rows as its row count
\* (_length_unfiltered), and geometry row k belongs to the same source row
\* as attribute row k.  The dataframes concatenated are the view before and
\* the view after the last operation.
C30_ConcatKeepsRowsAligned ==
    (RangeOk(vlast.pre) /\ RangeOk(gs)) =>
        LET r == GeoDataFrameConcatenated(<<vlast.pre, gs>>)
        IN  r.status = "ok" =>
                /\ Len(r.value.geometry) = r.value.length_unfiltered
                /\ \A k \in 1..r.value.length_unfiltered :
                      r.value.geometry[k] = r.value.attrs[k]

====
